---- MODULE Spec2Model ----
(***************************************************************************)
(* task-sync: two task services and the one-directional sync_tasks of      *)
(* src/main.py.  A service stores its tasks in a Python list; sync_tasks   *)
(* fetches both lists, indexes them by task_id and brings service2 up to   *)
(* service1 with update_task / add_task calls.                             *)
(***************************************************************************)
EXTENDS Integers, Sequences, FiniteSets, TLC

\* Number of client calls (add_task / update_task made outside sync_tasks)
\* explored after construction.
MaxEdits == 2

Services == {"Mock Service 1", "Mock Service 2"}

\* Task ids: the two the constructor creates and one more.
TaskIds == {"1", "2", "3"}
\* A task_id value that cannot be a dict key (Python accepts any object as
\* task_id; an unhashable one makes the dict comprehension raise TypeError).
Unhashable == "[unhashable]"
AllIds == TaskIds \cup {Unhashable}
Names == {"Task 1", "Task 2"}
Dates == {"2023-10-01", "2023-10-05"}

\* class Task
Task == [task_id : AllIds, name : Names, completed : BOOLEAN, due_date : Dates]

\* MockTaskService.__init__: every service starts with the same two tasks.
InitialTasks ==
    << [task_id |-> "1", name |-> "Task 1", completed |-> FALSE, due_date |-> "2023-10-01"],
       [task_id |-> "2", name |-> "Task 2", completed |-> TRUE,  due_date |-> "2023-10-05"] >>

\* Number of fields in which two tasks differ.
FieldDiff(t, u) ==
    (IF t.task_id = u.task_id THEN 0 ELSE 1) + (IF t.name = u.name THEN 0 ELSE 1)
    + (IF t.completed = u.completed THEN 0 ELSE 1) + (IF t.due_date = u.due_date THEN 0 ELSE 1)

\* What clients pass to add_task / update_task: the constructor's first task
\* with exactly one field changed (another id, name, completion or due date).
ClientTasks == {t \in Task : FieldDiff(t, InitialTasks[1]) = 1}

VARIABLES
    tasks,      \* tasks[s]: the list self.tasks of service s
    edits,      \* number of client calls made so far
    lastWrite,  \* lastWrite[id]: the service whose task id a client wrote most recently ("" if none)
    run         \* record of the most recent step.  After sync_tasks: its arguments,
                \* the lists before it (pre), the calls it issued on service2 (ops),
                \* how it ended, whether it repeats a successful run with the same
                \* arguments (repeat) and that run's number of calls.  After a client
                \* call: the service, the call with its task, the lists before it and
                \* whether it raised

vars == <<tasks, edits, lastWrite, run>>

----------------------------------------------------------------------------
\* Helpers on lists of tasks

Ids(list) == {list[i].task_id : i \in 1..Len(list)}

HasId(list, id) == \E i \in 1..Len(list) : list[i].task_id = id

\* Position of the first entry with the given id (0 if none).
FirstIndex(list, id) ==
    IF HasId(list, id)
    THEN CHOOSE i \in 1..Len(list) :
            /\ list[i].task_id = id
            /\ \A j \in 1..(i-1) : list[j].task_id # id
    ELSE 0

UniqueIds(list) ==
    \A i, j \in 1..Len(list) : list[i].task_id = list[j].task_id => i = j

----------------------------------------------------------------------------
\* MockTaskService

\* fetch_tasks returns the stored list itself.
fetch_tasks(list) == list

\* update_task that writes to the first slot instead of the slot it found.
update_taskFirstSlot(list, task) ==
    IF FirstIndex(list, task.task_id) = 0
    THEN [raised |-> TRUE,  tasks |-> list]
    ELSE [raised |-> FALSE, tasks |-> [list EXCEPT ![1] = task]]

\* update_task without the return: every entry with the id is replaced.
update_taskAll(list, task) ==
    [raised |-> ~HasId(list, task.task_id),
     tasks  |-> [i \in 1..Len(list) |->
                   IF list[i].task_id = task.task_id THEN task ELSE list[i]]]

\* update_task that copies only the completion flag into the stored entry.
update_taskFlagOnly(list, task) ==
    LET i == FirstIndex(list, task.task_id) IN
    IF i = 0
    THEN [raised |-> TRUE,  tasks |-> list]
    ELSE [raised |-> FALSE, tasks |-> [list EXCEPT ![i].completed = task.completed]]

\* update_task: replace the first entry with the task's id; SyncError if none.
update_task(list, task) ==
    LET i == FirstIndex(list, task.task_id) IN
    IF i = 0
    THEN [raised |-> TRUE,  tasks |-> list]
    ELSE [raised |-> FALSE, tasks |-> [list EXCEPT ![i] = task]]

\* add_task that assigns a new list instead of appending.
add_taskOverwrite(list, task) == <<task>>

\* add_task: append, no check.
add_task(list, task) == Append(list, task)

----------------------------------------------------------------------------
\* sync_tasks

\* {task.task_id: task for task in list}: a Python dict keeps the position of
\* the first insertion of a key and the value of the last one.  The dict is
\* modelled as the sequence of its values in key order.
RECURSIVE DictFrom(_, _)
DictFrom(list, acc) ==
    IF list = <<>> THEN acc
    ELSE LET t == Head(list)
             i == FirstIndex(acc, t.task_id)
         IN DictFrom(Tail(list),
                     IF i = 0 THEN Append(acc, t) ELSE [acc EXCEPT ![i] = t])

\* Indexing that keeps every entry (iterating the list instead of the dict).
IndexNoDedupe(list) == list

IndexByTaskId(list) == DictFrom(list, <<>>)

\* The dict comprehension raises when a task_id is not hashable.
IndexRaises(list) == HasId(list, Unhashable)

\* tasks2[task_id]
Lookup(dict, id) == dict[FirstIndex(dict, id)]

\* The comparison made on the name instead of the completion flag.
NeedsUpdateByName(task1, task2) == task1.name # task2.name

\* The flag compared with the task object instead of with its flag
\* (task1.completed != task2): a bool never equals a Task, so always true.
NeedsUpdateAlways(task1, task2) == task1.completed \in BOOLEAN /\ task2.completed \in BOOLEAN

\* line 89: if task1.completed != task2.completed
NeedsUpdate(task1, task2) == task1.completed # task2.completed

Op(kind, task) == [op |-> kind, task |-> task]

\* The loop with the try inside it: a call that raises is noted, the loop goes
\* on with the remaining tasks and the error is raised at the end.
RECURSIVE SyncLoopContinue(_, _, _, _, _, _)
SyncLoopContinue(tasks1, tasks2, i, cur, ops, fault) ==
    IF i > Len(tasks1)
    THEN [outcome |-> "ok", error |-> "", tasks2 |-> cur, ops |-> ops]
    ELSE
      LET task1 == tasks1[i]
          id    == task1.task_id
          kind  == IF HasId(tasks2, id) THEN "update_task" ELSE "add_task"
          issued == Append(ops, Op(kind, task1))
      IN
      IF HasId(tasks2, id) /\ ~NeedsUpdate(task1, Lookup(tasks2, id))
      THEN SyncLoopContinue(tasks1, tasks2, i + 1, cur, ops, fault)
      ELSE IF fault = id
      THEN [SyncLoopContinue(tasks1, tasks2, i + 1, cur, issued, fault)
              EXCEPT !.outcome = "raised", !.error = kind]
      ELSE SyncLoopContinue(tasks1, tasks2, i + 1,
                            IF kind = "update_task" THEN update_task(cur, task1).tasks
                            ELSE add_task(cur, task1),
                            issued, fault)

\* The loop with add_task called in both branches: a task whose flag differs
\* is appended to service2 instead of replacing the stored entry.
RECURSIVE SyncLoopAddsOnly(_, _, _, _, _, _)
SyncLoopAddsOnly(tasks1, tasks2, i, cur, ops, fault) ==
    IF i > Len(tasks1)
    THEN [outcome |-> "ok", error |-> "", tasks2 |-> cur, ops |-> ops]
    ELSE
      LET task1 == tasks1[i]
          id    == task1.task_id
          issued == Append(ops, Op("add_task", task1))
      IN
      IF HasId(tasks2, id) /\ ~NeedsUpdate(task1, Lookup(tasks2, id))
      THEN SyncLoopAddsOnly(tasks1, tasks2, i + 1, cur, ops, fault)
      ELSE IF fault = id
      THEN [outcome |-> "raised", error |-> "add_task", tasks2 |-> cur, ops |-> issued]
      ELSE SyncLoopAddsOnly(tasks1, tasks2, i + 1, add_task(cur, task1), issued, fault)

\* The for loop of sync_tasks from item i of tasks1 on.  cur is service2's
\* list, ops the calls issued so far on service2, fault the task id whose
\* call on service2 raises ("none": no backend call raises).
RECURSIVE SyncLoop(_, _, _, _, _, _)
SyncLoop(tasks1, tasks2, i, cur, ops, fault) ==
    IF i > Len(tasks1)
    THEN [outcome |-> "ok", error |-> "", tasks2 |-> cur, ops |-> ops]
    ELSE
      LET task1 == tasks1[i]
          id    == task1.task_id
      IN
      IF HasId(tasks2, id)
      THEN
        IF NeedsUpdate(task1, Lookup(tasks2, id))
        THEN
          LET r == update_task(cur, task1)
              issued == Append(ops, Op("update_task", task1))
          IN
          IF fault = id \/ r.raised
          THEN [outcome |-> "raised", error |-> "update_task", tasks2 |-> cur, ops |-> issued]
          ELSE SyncLoop(tasks1, tasks2, i + 1, r.tasks, issued, fault)
        ELSE SyncLoop(tasks1, tasks2, i + 1, cur, ops, fault)
      ELSE
        LET issued == Append(ops, Op("add_task", task1)) IN
        IF fault = id
        THEN [outcome |-> "raised", error |-> "add_task", tasks2 |-> cur, ops |-> issued]
        ELSE SyncLoop(tasks1, tasks2, i + 1, add_task(cur, task1), issued, fault)

\* Faults a backend can inject into one run: a fetch that raises, or the
\* call for one task id that raises.
Faults == {"none", "fetch1", "fetch2"} \cup TaskIds

Raised(stage, list2) == [outcome |-> "raised", error |-> stage, tasks2 |-> list2, ops |-> <<>>]

\* sync_tasks that reads service2 only after the loop: the loop runs against
\* an empty tasks2 before the failure of the second fetch is noticed.
sync_tasksLateFetch(list1, list2, fault) ==
    IF fault = "fetch1" THEN Raised("fetch1", list2)
    ELSE IF IndexRaises(fetch_tasks(list1)) THEN Raised("index1", list2)
    ELSE IF fault = "fetch2" \/ IndexRaises(fetch_tasks(list2))
         THEN LET r == SyncLoop(IndexByTaskId(fetch_tasks(list1)), <<>>, 1, list2, <<>>, "none")
              IN [outcome |-> "raised", error |-> IF fault = "fetch2" THEN "fetch2" ELSE "index2",
                  tasks2 |-> r.tasks2, ops |-> r.ops]
    ELSE SyncLoop(IndexByTaskId(fetch_tasks(list1)), IndexByTaskId(fetch_tasks(list2)),
                  1, list2, <<>>, fault)

\* sync_tasks(service1, service2) on the two stored lists.
sync_tasks(list1, list2, fault) ==
    IF fault = "fetch1" THEN Raised("fetch1", list2)
    ELSE IF IndexRaises(fetch_tasks(list1)) THEN Raised("index1", list2)
    ELSE IF fault = "fetch2" THEN Raised("fetch2", list2)
    ELSE IF IndexRaises(fetch_tasks(list2)) THEN Raised("index2", list2)
    ELSE SyncLoop(IndexByTaskId(fetch_tasks(list1)), IndexByTaskId(fetch_tasks(list2)),
                  1, list2, <<>>, fault)

----------------------------------------------------------------------------
\* State machine

NoRun == [kind |-> "none", service1 |-> "", service2 |-> "", pre |-> <<>>,
          outcome |-> "", error |-> "", ops |-> <<>>, repeat |-> FALSE, prevOps |-> 0]

Init ==
    /\ tasks = [s \in Services |-> InitialTasks]
    /\ edits = 0
    /\ lastWrite = [id \in AllIds |-> ""]
    /\ run = NoRun

\* Record of a client call on service s: what was called with which task, the
\* lists before the call and whether it raised.
ClientCall(kind, s, task, raised) ==
    [NoRun EXCEPT !.kind = kind, !.pre = tasks, !.service2 = s, !.ops = <<Op(kind, task)>>,
                  !.outcome = IF raised THEN "raised" ELSE "ok",
                  !.error = IF raised THEN "SyncError" ELSE ""]

\* A client calls service.add_task(task).
ClientAdd(s, task) ==
    /\ edits < MaxEdits
    /\ tasks' = [tasks EXCEPT ![s] = add_task(tasks[s], task)]
    /\ edits' = edits + 1
    /\ lastWrite' = [lastWrite EXCEPT ![task.task_id] = s]
    /\ run' = ClientCall("add_task", s, task, FALSE)

\* A client calls service.update_task(task); a SyncError leaves the list as it was.
ClientUpdate(s, task) ==
    /\ edits < MaxEdits
    /\ \E r \in {update_task(tasks[s], task)} :
        /\ tasks' = [tasks EXCEPT ![s] = r.tasks]
        /\ lastWrite' = IF r.raised THEN lastWrite
                        ELSE [lastWrite EXCEPT ![task.task_id] = s]
        /\ run' = ClientCall("update_task", s, task, r.raised)
    /\ edits' = edits + 1

\* The previous step was a successful sync_tasks(s1, s2).
Repeats(s1, s2) ==
    /\ run.kind = "sync"
    /\ run.outcome = "ok"
    /\ run.service1 = s1
    /\ run.service2 = s2

\* sync_tasks with the step left as a comment at line 96 filled in: after the
\* pass into service2, a pass from service2 into service1.
SyncBothWays(s1, s2, fault) ==
    /\ s1 # s2
    /\ \E r \in {sync_tasks(tasks[s1], tasks[s2], fault)} :
        /\ tasks' = [tasks EXCEPT ![s2] = r.tasks2,
                                  ![s1] = IF r.outcome = "ok"
                                          THEN sync_tasks(r.tasks2, tasks[s1], "none").tasks2
                                          ELSE tasks[s1]]
        /\ run' = [kind |-> "sync", service1 |-> s1, service2 |-> s2, pre |-> tasks,
                   outcome |-> r.outcome, error |-> r.error, ops |-> r.ops,
                   repeat |-> Repeats(s1, s2),
                   prevOps |-> IF Repeats(s1, s2) THEN Len(run.ops) ELSE 0]
    /\ UNCHANGED <<edits, lastWrite>>

\* One call sync_tasks(s1, s2), run to completion or to the exception.  As in
\* main, the two arguments are two different services.
Sync(s1, s2, fault) ==
    /\ s1 # s2
    /\ \E r \in {sync_tasks(tasks[s1], tasks[s2], fault)} :
        /\ tasks' = [tasks EXCEPT ![s2] = r.tasks2]
        /\ run' = [kind |-> "sync", service1 |-> s1, service2 |-> s2, pre |-> tasks,
                   outcome |-> r.outcome, error |-> r.error, ops |-> r.ops,
                   repeat |-> Repeats(s1, s2),
                   prevOps |-> IF Repeats(s1, s2) THEN Len(run.ops) ELSE 0]
    /\ UNCHANGED <<edits, lastWrite>>

Next ==
    \/ \E s \in Services, t \in ClientTasks : ClientAdd(s, t)
    \/ \E s \in Services, t \in ClientTasks : ClientUpdate(s, t)
    \/ \E s1, s2 \in Services, f \in Faults : Sync(s1, s2, f)

Spec == Init /\ [][Next]_vars

TypeOK ==
    /\ \A s \in Services : \A i \in 1..Len(tasks[s]) : tasks[s][i] \in Task
    /\ edits \in 0..MaxEdits
----------------------------------------------------------------------------
\* Properties of the most recent run

Ran    == run.kind = "sync"
RanOk  == Ran /\ run.outcome = "ok"
S1     == run.service1
S2     == run.service2
Pre1   == run.pre[S1]
Pre2   == run.pre[S2]
\* What the run read from service1: tasks1 of sync_tasks.
Fetched1 == IndexByTaskId(Pre1)

\* Positions in run.ops of the calls of one kind for one task id.
OpsFor(kind, id) ==
    {i \in 1..Len(run.ops) : run.ops[i].op = kind /\ run.ops[i].task.task_id = id}

PreUnique == UniqueIds(Pre1) /\ UniqueIds(Pre2)

\* C1: after sync_tasks(service1, service2) returns without error, every task
\* id fetched from service1 is present in service2, with the completed flag
\* that was fetched from service1 (service2 holds an entry of that id with
\* that flag; with unique ids it is the only entry of the id).
C1_Service2ReflectsService1 ==
    RanOk =>
      \A i \in 1..Len(Fetched1) :
        \E j \in 1..Len(tasks[S2]) :
          /\ tasks[S2][j].task_id = Fetched1[i].task_id
          /\ tasks[S2][j].completed = Fetched1[i].completed

\* A successful run that had to update one task and to add another.
C1_Witness ==
    /\ RanOk
    /\ \E i, j \in 1..Len(run.ops) :
         run.ops[i].op = "update_task" /\ run.ops[j].op = "add_task"

\* C2: a successful run repeated with the same arguments and no client call
\* in between, on services with unique task ids, issues no add_task and no
\* update_task.
C2_Idempotent ==
    (Ran /\ run.repeat /\ PreUnique) => run.ops = <<>>

\* The repeated run follows a run that issued an update and an add.
C2_Witness ==
    /\ RanOk /\ run.repeat /\ PreUnique
    /\ run.prevOps >= 2

\* C3: after a successful run every task id held by both services has equal
\* content (name, completed, due_date) in both.
C3_ContentConverges ==
    (RanOk /\ PreUnique) =>
      \A i \in 1..Len(tasks[S1]), j \in 1..Len(tasks[S2]) :
        tasks[S1][i].task_id = tasks[S2][j].task_id => tasks[S1][i] = tasks[S2][j]

\* C4: a task id held by service1 and not by service2 gets exactly one
\* add_task and no update_task in a run that completes, and service2 holds
\* the id afterwards.
C4_MissingTaskCreatedOnce ==
    RanOk =>
      \A id \in Ids(Pre1) \ Ids(Pre2) :
        /\ Cardinality(OpsFor("add_task", id)) = 1
        /\ \A i \in OpsFor("add_task", id) : run.ops[i].task = Lookup(Fetched1, id)
        /\ OpsFor("update_task", id) = {}
        /\ id \in Ids(tasks[S2])

\* A completed run in which service1 listed, twice, an id that service2
\* lacked, and service2 holds it afterwards.
C4_Witness ==
    /\ RanOk
    /\ \E id \in Ids(Pre1) \ Ids(Pre2) :
         /\ Cardinality({i \in 1..Len(Pre1) : Pre1[i].task_id = id}) = 2
         /\ id \in Ids(tasks[S2])

\* C5: a task id held by service2 and not by service1 is created on service1
\* by sync_tasks(service1, service2), so that both hold it afterwards.
C5_Bidirectional ==
    RanOk => \A id \in Ids(Pre2) \ Ids(Pre1) : id \in Ids(tasks[S1])
\* Every entry of task id in the list has the given completed flag.
FlagIs(list, id, flag) ==
    \A i \in 1..Len(list) : list[i].task_id = id => list[i].completed = flag

\* C6: when a task id is not completed in backend A and completed in backend
\* B, and B's value was written last, one successful sync in either direction
\* leaves both completed, with exactly one update issued to A and no
\* operation issued to B.
C6_LastWriterWins ==
    (RanOk /\ PreUnique) =>
      \A id \in Ids(Pre1) \cap Ids(Pre2) : \A A, B \in {S1, S2} :
        (/\ A # B
         /\ FlagIs(run.pre[A], id, FALSE)
         /\ FlagIs(run.pre[B], id, TRUE)
         /\ lastWrite[id] = B)
        => /\ FlagIs(tasks[A], id, TRUE)
           /\ FlagIs(tasks[B], id, TRUE)
           /\ S2 = A
           /\ Cardinality(OpsFor("update_task", id)) = 1
           /\ OpsFor("add_task", id) = {}

\* C7: when an add_task or update_task call on service2 raises during a run
\* (on services with unique task ids), both services are left as they were
\* before the run.
C7_FailureLeavesService2Untouched ==
    (Ran /\ PreUnique /\ run.error \in {"add_task", "update_task"}) => tasks = run.pre

\* C8: when a fetch or the indexing by task_id raises, no add_task or
\* update_task has been issued and both services are unchanged.
C8_FailFastBeforeMutation ==
    (Ran /\ run.error \in {"fetch1", "index1", "fetch2", "index2"})
      => run.ops = <<>> /\ tasks = run.pre

\* The read of service2 raised (a fetch fault or an unhashable task_id) in a
\* run that had a task to add: service1 held an id service2 lacked.
C8_Witness ==
    /\ Ran /\ run.error \in {"fetch2", "index2"}
    /\ Ids(Pre1) \ Ids(Pre2) # {}

\* C9: within one run (on services with unique task ids) every add_task
\* issued on service2 comes before every update_task issued on service2.
C9_CreatesBeforeUpdates ==
    (Ran /\ PreUnique) => \A i, j \in 1..Len(run.ops) :
             (run.ops[i].op = "update_task" /\ run.ops[j].op = "add_task") => j < i

\* The orders in which fetch_tasks can list the same tasks.
Orders(list) ==
    LET n == Len(list)
        P == {f \in [1..n -> 1..n] : \A i, j \in 1..n : f[i] = f[j] => i = j}
    IN {[i \in 1..n |-> list[f[i]]] : f \in P}

Entries(list) == {list[i] : i \in 1..Len(list)}

\* C10: for services with unique task ids, how a run without backend faults
\* ends, the tasks service2 holds afterwards (as a mapping id -> task) and the
\* set of calls issued are the same for every order in which the two
\* services list their tasks.
C10_OrderIndependent ==
    (Ran /\ PreUnique /\ run.error \in {"", "index1", "index2"}) =>
      \A l1 \in Orders(Pre1), l2 \in Orders(Pre2) :
        \A r \in {sync_tasks(l1, l2, "none")} :
        /\ r.outcome = run.outcome
        /\ Entries(r.tasks2) = Entries(tasks[S2])
        /\ Entries(r.ops) = Entries(run.ops)

\* A successful run on unique ids that issued an update and an add, so that
\* another listing order issues them the other way round.
C10_Witness ==
    /\ RanOk /\ PreUnique
    /\ \E i, j \in 1..Len(run.ops) :
         i < j /\ run.ops[i].op = "update_task" /\ run.ops[j].op = "add_task"
\* What the run read from service2: tasks2 of sync_tasks.
Fetched2 == IndexByTaskId(Pre2)

\* The run got as far as the loop: both fetches and both indexings succeeded.
ReachedLoop == Ran /\ run.error \in {"", "add_task", "update_task"}

\* C11: for a task id present in both services, update_task is issued on
\* service2 only if the two completed flags differ and, in a run that
\* completes, whenever they differ (a difference in name or due_date alone
\* issues nothing); after the update service2's entry for the id (the first
\* one) equals service1's task in every field.
C11_UpdateIffFlagsDiffer ==
    ReachedLoop =>
      \A id \in Ids(Fetched1) \cap Ids(Fetched2) :
        LET task1 == Lookup(Fetched1, id)
            task2 == Lookup(Fetched2, id)
        IN
        /\ OpsFor("update_task", id) # {} => task1.completed # task2.completed
        /\ OpsFor("add_task", id) = {}
        /\ RanOk =>
             /\ task1.completed # task2.completed => Cardinality(OpsFor("update_task", id)) = 1
             /\ OpsFor("update_task", id) # {}
                  => \E k \in 1..Len(tasks[S2]) :
                       /\ tasks[S2][k].task_id = id
                       /\ \A j \in 1..(k-1) : tasks[S2][j].task_id # id
                       /\ tasks[S2][k] = task1

\* A completed run that left one shared task alone although its name or due
\* date differed, and updated another one that differed in more than the flag.
C11_Witness ==
    /\ RanOk
    /\ \E id \in Ids(Fetched1) \cap Ids(Fetched2) :
         /\ Lookup(Fetched1, id) # Lookup(Fetched2, id)
         /\ OpsFor("update_task", id) = {}
    /\ \E id \in Ids(Fetched1) \cap Ids(Fetched2) :
         /\ FieldDiff(Lookup(Fetched1, id), Lookup(Fetched2, id)) >= 2
         /\ OpsFor("update_task", id) # {}
\* The effect of a sequence of calls on a list.
RECURSIVE ApplyOps(_, _)
ApplyOps(list, ops) ==
    IF ops = <<>> THEN list
    ELSE ApplyOps(IF Head(ops).op = "add_task" THEN add_task(list, Head(ops).task)
                  ELSE update_task(list, Head(ops).task).tasks,
                  Tail(ops))

\* C12: when an add_task or update_task call raises during sync_tasks, the
\* run ends with that call: the calls issued are the calls of the undisturbed
\* run up to the failing one, which is issued once and is the last, the calls
\* before it are in effect, and the error reaches the caller.
C12_AbortOnFirstFailure ==
    (Ran /\ run.error \in {"add_task", "update_task"}) =>
      LET n == Len(run.ops) IN
      \A full \in {sync_tasks(Pre1, Pre2, "none").ops} :
        /\ run.outcome = "raised"
        /\ n >= 1 /\ n <= Len(full)
        /\ run.ops = SubSeq(full, 1, n)
        /\ run.ops[n].op = run.error
        /\ \A i \in 1..(n-1) : run.ops[i].task.task_id # run.ops[n].task.task_id
        /\ tasks[S2] = ApplyOps(Pre2, SubSeq(run.ops, 1, n - 1))

\* A call raised while service1 still had a task that needed a call.
C12_Witness ==
    /\ Ran /\ run.error \in {"add_task", "update_task"}
    /\ Len(sync_tasks(Pre1, Pre2, "none").ops) > Len(run.ops)
\* C13: update_task(task) on a service without an entry of task.task_id
\* raises SyncError and leaves the list as it was; otherwise it puts the task
\* in place of the first entry with that id and leaves the length, the
\* position and every other entry as they were.
C13_UpdateTaskReplacesFirst ==
    run.kind = "update_task" =>
      LET s    == run.service2
          task == run.ops[1].task
          old  == run.pre[s]
          new  == tasks[s]
      IN
      IF \A i \in 1..Len(old) : old[i].task_id # task.task_id
      THEN run.outcome = "raised" /\ run.error = "SyncError" /\ new = old
      ELSE /\ run.outcome = "ok"
           /\ Len(new) = Len(old)
           /\ \E k \in 1..Len(old) :
                /\ old[k].task_id = task.task_id
                /\ \A j \in 1..(k-1) : old[j].task_id # task.task_id
                /\ new[k] = task
                /\ \A j \in 1..Len(old) : j # k => new[j] = old[j]

\* update_task succeeded on a list holding the id twice: the first entry now
\* is the task, the later one is not.
C13_Witness ==
    /\ run.kind = "update_task" /\ run.outcome = "ok"
    /\ \E k, j \in 1..Len(tasks[run.service2]) :
         /\ k < j
         /\ tasks[run.service2][k] = run.ops[1].task
         /\ tasks[run.service2][j].task_id = run.ops[1].task.task_id
         /\ tasks[run.service2][j] # run.ops[1].task
\* C14: sync_tasks(service1, service2) leaves service1's list as it was,
\* whether the run completes or raises.
C14_Service1Untouched ==
    Ran => tasks[S1] = Pre1

\* A run that raised after it had already changed service2.
C14_Witness ==
    /\ Ran /\ run.outcome = "raised"
    /\ tasks[S2] # Pre2
    /\ tasks[S1] # tasks[S2]
\* C15: a sync_tasks call removes no task id from either service; service2
\* gains only ids of service1 and, when the run completes, holds exactly the
\* ids it held before together with those of service1.
C15_NoDeletion ==
    Ran =>
      /\ \A s \in Services : Ids(run.pre[s]) \subseteq Ids(tasks[s])
      /\ Ids(tasks[S2]) \subseteq Ids(Pre2) \cup Ids(Pre1)
      /\ RanOk => Ids(tasks[S2]) = Ids(Pre2) \cup Ids(Pre1)

\* A completed run that replaced a task of service2 and gave it a new id.
C15_Witness ==
    /\ RanOk
    /\ Ids(Pre1) \ Ids(Pre2) # {}
    /\ \E id \in Ids(Pre2) : OpsFor("update_task", id) # {}

\* C16: a sync_tasks call between services with pairwise distinct task ids
\* leaves both with pairwise distinct task ids, so uniqueness lasts over any
\* sequence of calls.
C16_UniquenessPreserved ==
    (Ran /\ PreUnique) => UniqueIds(tasks[S1]) /\ UniqueIds(tasks[S2])

\* A run on unique ids that issued two calls on service2, completed or not.
C16_Witness ==
    /\ Ran /\ PreUnique
    /\ Len(run.ops) >= 2
    /\ Len(tasks[S2]) > Len(Pre2)
====
